---------------------------- MODULE Spec2Model ----------------------------
(***************************************************************************)
(* A model of jigsaw-puzzle-rust (src/src/main.rs): pieces are loaded,     *)
(* sorted, placed on the grid by the work-stack traversal of               *)
(* assemble_puzzle, and blitted to a shared canvas under one mutex.        *)
(*                                                                         *)
(* Indices: Rust indexes pieces from 0, TLA+ sequences from 1, so index i  *)
(* of the source is index i+1 here (the stack is seeded with 1).  A tile's *)
(* image is represented by its identity (id) and its dimensions; its four  *)
(* edge fingerprints are inputs.  The geometry is scaled down: the source  *)
(* has a 16 x 16 grid of 240 x 135 tiles on a 3840 x 2160 canvas, the      *)
(* model a 2 x 2 grid of 2 x 2 tiles on a 4 x 4 canvas, with the same      *)
(* relations between the constants (canvas = grid * first tile size).      *)
(***************************************************************************)
EXTENDS Integers, Sequences, FiniteSets, TLC

\* ------------------------------------------------------------ constants

PUZZLE_GRID_SIZE == 2
FIRST_COL_WIDTH == 2
FIRST_ROW_HEIGHT == 2
IMAGE_WIDTH == 4
IMAGE_HEIGHT == 4

\* enum Side, as usize
Left == 0
Top == 1
Right == 2
Bottom == 3

Sides == {Left, Top, Right, Bottom}

OFFSETS == [s \in Sides |->
              CASE s = Left -> <<-1, 0>>
                [] s = Top -> <<0, -1>>
                [] s = Right -> <<1, 0>>
                [] s = Bottom -> <<0, 1>>]

\* the array the for loop of assemble_puzzle iterates: (side, opposite_side)
SIDE_PAIRS == <<(<<Right, Left>>), (<<Bottom, Top>>)>>

\* ---------------------------------------------------------------- bounds

\* how many tiles beside those of the grid the directory may hold
MaxExtra == 1

\* ---------------------------------------------------------------- tiles

GridCells == (0 .. PUZZLE_GRID_SIZE - 1) \X (0 .. PUZZLE_GRID_SIZE - 1)

\* the identity of the tile cut from cell (c, r)
CellId(c, r) == 1 + c + PUZZLE_GRID_SIZE * r

TrueCol(id) == (id - 1) % PUZZLE_GRID_SIZE

TrueRow(id) == (id - 1) \div PUZZLE_GRID_SIZE

GridIds == 1 .. PUZZLE_GRID_SIZE * PUZZLE_GRID_SIZE

\* the fingerprint of the vertical cut at x (0 .. GRID) in row r, and of the
\* horizontal cut at y in column c: every cut has a fingerprint of its own
VEdge(x, r) == 1 + x + (PUZZLE_GRID_SIZE + 1) * r

HEdge(c, y) == PUZZLE_GRID_SIZE * (PUZZLE_GRID_SIZE + 1) + 1 + c + PUZZLE_GRID_SIZE * y

\* the tile file cut from cell (c, r): the first column is FIRST_COL_WIDTH
\* wide and the first row FIRST_ROW_HEIGHT tall, every other tile one more
GridTile(c, r) ==
  [id |-> CellId(c, r),
   width |-> IF c = 0 THEN FIRST_COL_WIDTH ELSE FIRST_COL_WIDTH + 1,
   height |-> IF r = 0 THEN FIRST_ROW_HEIGHT ELSE FIRST_ROW_HEIGHT + 1,
   edge_hashes |-> [s \in Sides |->
                      CASE s = Left -> VEdge(c, r)
                        [] s = Top -> HEdge(c, r)
                        [] s = Right -> VEdge(c + 1, r)
                        [] s = Bottom -> HEdge(c, r + 1)]]

GridTileOf(id) == GridTile(TrueCol(id), TrueRow(id))

\* a tile beside the grid's whose fingerprints collide with the grid's: its
\* left and top borders look like those of grid tile g1 (it fits where g1
\* fits), its right border like the left border of grid tile g2 and its
\* bottom border like the top border of g2 (g2 fits right of it and below it)
ExtraTile(id, w, h, g1, g2) ==
  [id |-> id, width |-> w, height |-> h,
   edge_hashes |-> [s \in Sides |->
                      CASE s = Left -> GridTileOf(g1).edge_hashes[Left]
                        [] s = Top -> GridTileOf(g1).edge_hashes[Top]
                        [] s = Right -> GridTileOf(g2).edge_hashes[Left]
                        [] s = Bottom -> GridTileOf(g2).edge_hashes[Top]]]

\* the sizes a tile that is not the origin can have
ExtraDims ==
  <<(<<FIRST_COL_WIDTH, FIRST_ROW_HEIGHT + 1>>),
    (<<FIRST_COL_WIDTH + 1, FIRST_ROW_HEIGHT>>),
    (<<FIRST_COL_WIDTH + 1, FIRST_ROW_HEIGHT + 1>>)>>

\* the size of a tile of the first row that is not the origin
RowDims == <<(<<FIRST_COL_WIDTH + 1, FIRST_ROW_HEIGHT>>)>>

\* the grid tiles of the first row
RowIds == {CellId(c, 0) : c \in 0 .. PUZZLE_GRID_SIZE - 1}

\* what an extra tile is made of: one of the sizes dims, g1, and g2 among ends
ExtraChoices(dims, ends) == (1 .. Len(dims)) \X GridIds \X ends

Rank(ch) ==
  ((ch[1] - 1) * Cardinality(GridIds) + (ch[2] - 1)) * Cardinality(GridIds) + (ch[3] - 1)

\* the lists of k extra tiles, each list standing for the set of its tiles
ExtraLists(k, dims, ends) ==
  {l \in [1 .. k -> ExtraChoices(dims, ends)] :
     \A i \in 1 .. k - 1 : Rank(l[i]) <= Rank(l[i + 1])}

\* the tile files of the complete grid, in reading order of the cells
GridFiles == [i \in GridIds |-> GridTileOf(i)]

\* the extra tile files of list l, with identities following the grid's
ExtraFiles(l, dims) ==
  [i \in 1 .. Len(l) |->
     ExtraTile(Cardinality(GridIds) + i, dims[l[i][1]][1], dims[l[i][1]][2],
               l[i][2], l[i][3])]

\* the tile sets: the complete grid and up to MaxExtra extra tiles of sizes
\* dims that end like the grid tiles ends
TileSets(dims, ends) ==
  {GridFiles \o ExtraFiles(l, dims) :
     l \in UNION {ExtraLists(k, dims, ends) : k \in 0 .. MaxExtra}}

\* the tile files of the grid without the origin's
HeadlessFiles == [i \in 1 .. Cardinality(GridIds) - 1 |-> GridTileOf(i + 1)]

\* a fingerprint no tile of the grid has on any side
NoEdge(id) == 2 * PUZZLE_GRID_SIZE * (PUZZLE_GRID_SIZE + 1) + id

\* the tile files fs with the bottom border of those beside the grid's, when
\* open, looking like no tile's top border
WithBottoms(fs, open) ==
  [i \in 1 .. Len(fs) |->
     IF open /\ fs[i].id > Cardinality(GridIds)
     THEN [fs[i] EXCEPT !.edge_hashes[Bottom] = NoEdge(fs[i].id)]
     ELSE fs[i]]

\* the tile sets without an origin: the grid but its origin, and up to
\* MaxExtra extra tiles
HeadlessTileSets(dims, ends) ==
  {WithBottoms(HeadlessFiles \o ExtraFiles(l, dims), open) :
     l \in UNION {ExtraLists(k, dims, ends) : k \in 0 .. MaxExtra},
     open \in BOOLEAN}

\* ---------------------------------------------------------------- pieces

\* PuzzlePiece::new: anchors are classified by the image's dimensions
new(image) ==
  [id |-> image.id, width |-> image.width, height |-> image.height,
   col |-> IF image.width = FIRST_COL_WIDTH THEN 0 ELSE -1,
   row |-> IF image.height = FIRST_ROW_HEIGHT THEN 0 ELSE -1,
   edge_hashes |-> image.edge_hashes]

\* rect taking the seam pixel off in the first column and row too
rect_seam_everywhere(piece) ==
  [x |-> FIRST_COL_WIDTH * piece.col - 1,
   y |-> FIRST_ROW_HEIGHT * piece.row - 1,
   width |-> piece.width,
   height |-> piece.height]

\* rect without the seam pixel
rect_no_seam(piece) ==
  [x |-> FIRST_COL_WIDTH * piece.col,
   y |-> FIRST_ROW_HEIGHT * piece.row,
   width |-> piece.width,
   height |-> piece.height]

\* PuzzlePiece::rect, called for pieces with col >= 0 and row >= 0
rect(piece) ==
  [x |-> FIRST_COL_WIDTH * piece.col - (IF piece.col > 0 THEN 1 ELSE 0),
   y |-> FIRST_ROW_HEIGHT * piece.row - (IF piece.row > 0 THEN 1 ELSE 0),
   width |-> piece.width, height |-> piece.height]

\* the comparator without the two branches that rank the origin first
cmp_no_origin(a, b) ==
  IF (a.col = 0 \/ a.row = 0) /\ (b.col # 0 /\ b.row # 0) THEN "Less"
  ELSE IF (b.col = 0 \/ b.row = 0) /\ (a.col # 0 /\ a.row # 0) THEN "Greater"
  ELSE IF a.col + a.row < b.col + b.row THEN "Less"
  ELSE IF a.col + a.row > b.col + b.row THEN "Greater"
  ELSE "Equal"

\* a comparator that has only the last branch: col + row ascending
cmp_sum_only(a, b) ==
  IF a.col + a.row < b.col + b.row THEN "Less"
  ELSE IF a.col + a.row > b.col + b.row THEN "Greater"
  ELSE "Equal"

\* the comparator of sort_unstable_by
cmp(a, b) ==
  IF (a.col = 0 \/ a.row = 0) /\ (b.col # 0 /\ b.row # 0) THEN "Less"
  ELSE IF (b.col = 0 \/ b.row = 0) /\ (a.col # 0 /\ a.row # 0) THEN "Greater"
  ELSE IF a.col = 0 /\ a.row = 0 THEN "Less"
  ELSE IF b.col = 0 /\ b.row = 0 THEN "Greater"
  ELSE IF a.col + a.row < b.col + b.row THEN "Less"
  ELSE IF a.col + a.row > b.col + b.row THEN "Greater"
  ELSE "Equal"

Reorder(ps, o) == [i \in 1 .. Len(ps) |-> ps[o[i]]]

RECURSIVE SortedOrders(_, _)
\* the orders of the indices S of ps in which the comparator ranks no element
\* before an earlier one: the first is one that no other is Less than
SortedOrders(ps, S) ==
  IF S = {} THEN {<< >>}
  ELSE UNION {{<<x>> \o o : o \in SortedOrders(ps, S \ {x})} :
                x \in {x \in S : \A y \in S \ {x} : cmp(ps[y], ps[x]) # "Less"}}

\* pieces.sort_unstable_by(..): the sort is unstable, so every order of the
\* pieces that the comparator accepts is a possible outcome
sort_unstable_by(ps) ==
  {Reorder(ps, o) : o \in SortedOrders(ps, 1 .. Len(ps))}

RECURSIVE IndicesWith_descending(_, _, _, _)
\* the indices from i on whose fingerprint on side s is h, the highest first
IndicesWith_descending(ps, s, h, i) ==
  IF i > Len(ps) THEN << >>
  ELSE IndicesWith_descending(ps, s, h, i + 1)
       \o (IF ps[i].edge_hashes[s] = h THEN <<i>> ELSE << >>)

RECURSIVE IndicesWith(_, _, _, _)
\* the indices from i on whose fingerprint on side s is h, ascending: the
\* Vec that the pushes of build_hash_map leave under key h
IndicesWith(ps, s, h, i) ==
  IF i > Len(ps) THEN << >>
  ELSE (IF ps[i].edge_hashes[s] = h THEN <<i>> ELSE << >>)
       \o IndicesWith(ps, s, h, i + 1)

\* build_hash_map: per side, fingerprint -> the indices having it, in index
\* order; a fingerprint no piece has on that side is no key of the map
build_hash_map(ps) ==
  [s \in Sides |->
     [h \in {ps[i].edge_hashes[s] : i \in 1 .. Len(ps)} |-> IndicesWith(ps, s, h, 1)]]

RECURSIVE find_any(_, _, _, _)
\* find without the test for an unresolved coordinate
find_any(matches, k, ps, cur) ==
  IF k > Len(matches) THEN 0
  ELSE IF matches[k] # cur THEN matches[k]
       ELSE find_any(matches, k + 1, ps, cur)

RECURSIVE find_zero_unresolved(_, _, _, _)
\* find taking a coordinate of 0 for unresolved as well
find_zero_unresolved(matches, k, ps, cur) ==
  IF k > Len(matches) THEN 0
  ELSE IF matches[k] # cur /\ (ps[matches[k]].col <= 0 \/ ps[matches[k]].row <= 0)
       THEN matches[k]
       ELSE find_zero_unresolved(matches, k + 1, ps, cur)

RECURSIVE find(_, _, _, _)
\* matches.iter().find(..): the first id from position k on that is not the
\* current piece and has col or row unresolved; 0 when there is none
find(matches, k, ps, cur) ==
  IF k > Len(matches) THEN 0
  ELSE IF matches[k] # cur /\ (ps[matches[k]].col = -1 \/ ps[matches[k]].row = -1)
       THEN matches[k]
       ELSE find(matches, k + 1, ps, cur)

\* match_index looking the fingerprint up in the map of its own side
match_index_same_side(maps, ps, cur, side, opposite_side) ==
  LET h == ps[cur].edge_hashes[side] IN
    IF h \in DOMAIN maps[side]
    THEN find(maps[side][h], 1, ps, cur)
    ELSE 0

\* hash_maps[opposite_side].get(&pieces[cur].edge_hashes[side]).and_then(..)
match_index(maps, ps, cur, side, opposite_side) ==
  LET h == ps[cur].edge_hashes[side] IN
    IF h \in DOMAIN maps[opposite_side]
    THEN find(maps[opposite_side][h], 1, ps, cur)
    ELSE 0

\* a test that holds for no cell
is_last_cell_never(c, r) == FALSE

\* the test at the head of the loop body: the last grid cell is not expanded
is_last_cell(c, r) == c = PUZZLE_GRID_SIZE - 1 /\ r = PUZZLE_GRID_SIZE - 1

\* col and row are i32: the width, scaled down from 32 bits
I32_BITS == 4

I32_MIN == -(2 ^ (I32_BITS - 1))

I32_MAX == 2 ^ (I32_BITS - 1) - 1

\* whether a + b overflows an i32: a build with overflow checks panics
overflows(a, b) == a + b > I32_MAX \/ a + b < I32_MIN

\* a + b in a build without overflow checks
wrapping_add(a, b) == ((a + b - I32_MIN) % (2 ^ I32_BITS)) + I32_MIN

\* place with the two components of the offset taken for each other
place_swapped(ps, m, c, r, side) ==
  [ps EXCEPT ![m].col = c + OFFSETS[side][2], ![m].row = r + OFFSETS[side][1]]

\* place without the offset: the match gets the coordinates of the popped piece
place_no_offset(ps, m, c, r, side) ==
  [ps EXCEPT ![m].col = c, ![m].row = r]

\* place with the offset taken twice
place_double_offset(ps, m, c, r, side) ==
  [ps EXCEPT ![m].col = c + 2 * OFFSETS[side][1], ![m].row = r + 2 * OFFSETS[side][2]]

\* the two assignments to the matched piece, the sums wrapping as in a build
\* without overflow checks
place(ps, m, c, r, side) ==
  [ps EXCEPT ![m].col = wrapping_add(c, OFFSETS[side][1]),
             ![m].row = wrapping_add(r, OFFSETS[side][2])]

\* one iteration of the for loop, for the pair (side, opposite_side), in the
\* expansion of piece cur popped with coordinates (c, r): the pieces, the
\* stack and the match (0 when there is none) it leaves
expand(maps, ps, st, cur, c, r, pair) ==
  LET m == match_index(maps, ps, cur, pair[1], pair[2]) IN
    IF m # 0
    THEN [pieces |-> place(ps, m, c, r, pair[1]), stack |-> Append(st, m), m |-> m,
          overflow |-> \/ overflows(c, OFFSETS[pair[1]][1])
                       \/ overflows(r, OFFSETS[pair[1]][2])]
    ELSE [pieces |-> ps, stack |-> st, m |-> 0, overflow |-> FALSE]

RECURSIVE traverse(_, _, _)
\* the while loop of assemble_puzzle run from pieces ps and stack st to the
\* empty stack: the pieces it leaves
traverse(maps, ps, st) ==
  IF st = << >> THEN ps
  ELSE LET cur == st[Len(st)]
           c == ps[cur].col
           r == ps[cur].row
           st1 == SubSeq(st, 1, Len(st) - 1)
       IN IF is_last_cell(c, r) THEN traverse(maps, ps, st1)
          ELSE LET e1 == expand(maps, ps, st1, cur, c, r, SIDE_PAIRS[1])
                   e2 == expand(maps, e1.pieces, e1.stack, cur, c, r, SIDE_PAIRS[2])
               IN traverse(maps, e2.pieces, e2.stack)

\* assemble_puzzle as a function of the loaded pieces: the final pieces, one
\* outcome per order the sort can leave
assemble_puzzle(ps) ==
  {traverse(build_hash_map(q), q, <<1>>) : q \in sort_unstable_by(ps)}

\* the test with "or" between the two lower bounds
blit_guard_either(piece) ==
  /\ (piece.col >= 0 \/ piece.row >= 0)
  /\ piece.col < PUZZLE_GRID_SIZE
  /\ piece.row < PUZZLE_GRID_SIZE

\* the test without its two upper bounds
blit_guard_no_upper(piece) == piece.col >= 0 /\ piece.row >= 0

\* the test of the compositor's closure
blit_guard(piece) ==
  /\ piece.col >= 0
  /\ piece.row >= 0
  /\ piece.col < PUZZLE_GRID_SIZE
  /\ piece.row < PUZZLE_GRID_SIZE

Pixels == (0 .. IMAGE_WIDTH - 1) \X (0 .. IMAGE_HEIGHT - 1)

\* the pixels of the rectangle r
RectPixels(r) ==
  {p \in (r.x .. r.x + r.width - 1) \X (r.y .. r.y + r.height - 1) : TRUE}

\* the bounds test of GenericImage::copy_from
fits(r) == r.x + r.width <= IMAGE_WIDTH /\ r.y + r.height <= IMAGE_HEIGHT

\* a copy_from that ignores x and y and writes at the canvas's origin
copy_from_origin(cv, piece) ==
  [p \in Pixels |->
     IF p \in RectPixels([x |-> 0, y |-> 0, width |-> piece.width,
                          height |-> piece.height])
     THEN piece.id ELSE cv[p]]

\* result.copy_from(&buffer, x, y): the piece's pixels, here its identity,
\* replace the canvas's in the rectangle
copy_from(cv, piece) ==
  [p \in Pixels |-> IF p \in RectPixels(rect(piece)) THEN piece.id ELSE cv[p]]

\* ----------------------------------------------------------------- state

VARIABLES
  pc,             \* where main is: load, sort, loop, expand, compose, save, done, failed, panicked
  dir,            \* the directory "peaces": whether it can be listed, its tile files, the undecodable one
  pieces,         \* puzzle_pieces
  hash_maps,      \* hash_maps of assemble_puzzle
  stack,          \* stack of assemble_puzzle
  current_index,  \* \
  col,            \*  > the locals of one iteration of the while loop
  row,            \* /
  side_i,         \* the position of the for loop in SIDE_PAIRS
  canvas,         \* the ImageBuffer inside result
  lock,           \* the holder of the Mutex of result (an index, 0 when free)
  task,           \* per piece, where its closure of for_each is: todo, locked, copied, done, skipped
  saved,          \* whether result.jpg was written
  placed_by,      \* history: per tile id, the piece that selected it and the side
  pushlog,        \* history: the indices pushed on the stack, in order (the first Len(pieces) + 1)
  acquired        \* history: per piece, how often its closure got the lock

vars == <<pc, dir, pieces, hash_maps, stack, current_index, col, row, side_i,
          canvas, lock, task, saved, placed_by, pushlog, acquired>>

traversal == <<pieces, hash_maps, stack, current_index, col, row, side_i,
               placed_by, pushlog>>

compositor == <<canvas, lock, task, saved, acquired>>

\* the directories holding one of the tile sets fs: listable or not, with at
\* most one file that cannot be decoded (bad is its position, 0 when all can)
Directories(fs) ==
  {[readable |-> ok, files |-> f, bad |-> b] :
     ok \in BOOLEAN, f \in fs, b \in 0 .. (PUZZLE_GRID_SIZE * PUZZLE_GRID_SIZE)}

\* the directories load_puzzle reads without error
GoodDirectories(fs) == {d \in Directories(fs) : d.readable /\ d.bad = 0}

IdsOf(d) == {d.files[i].id : i \in 1 .. Len(d.files)}

\* a load_puzzle that fails on read_dir only
load_fails_read_dir_only(d) == ~d.readable

\* whether load_puzzle returns Err: read_dir fails, or image::open fails on
\* an entry
load_fails(d) == ~d.readable \/ d.bad # 0

\* the orders in which par_bridge hands n entries to collect: the rotations
\* of the directory's order (the sort's outcomes do not depend on it)
LoadOrders(n) == {[i \in 1 .. n |-> ((i + k - 1) % n) + 1] : k \in 0 .. n - 1}

\* the collections load_puzzle can return for directory d
load_puzzle(d) ==
  {Reorder([i \in 1 .. Len(d.files) |-> new(d.files[i])], o) :
     o \in LoadOrders(Len(d.files))}

NoPlacer == [by |-> 0, side |-> Left]

Start(d) ==
  /\ dir = d
  /\ hash_maps = << >>
  /\ stack = << >>
  /\ current_index = 0
  /\ col = 0
  /\ row = 0
  /\ side_i = 0
  /\ canvas = << >>
  /\ lock = 0
  /\ task = << >>
  /\ saved = FALSE
  /\ placed_by = [id \in IdsOf(d) |-> NoPlacer]
  /\ pushlog = << >>
  /\ acquired = << >>

\* main is about to call load_puzzle; the extra tiles have the size of the
\* first row's
Init ==
  \E d \in Directories(TileSets(RowDims, RowIds)) :
    /\ Start(d)
    /\ pc = "load"
    /\ pieces = << >>

\* assemble_puzzle is entered with the pieces of a directory that loaded; the
\* extra tiles have any size but the origin's
InitAssemble ==
  \E d \in GoodDirectories(TileSets(ExtraDims, GridIds)) :
    /\ Start(d)
    /\ pc = "sort"
    /\ pieces \in load_puzzle(d)

\* assemble_puzzle is entered with the pieces of a directory that loaded and
\* holds an origin tile or none
InitTraversal ==
  \E d \in GoodDirectories(TileSets(ExtraDims, GridIds)
                             \cup HeadlessTileSets(ExtraDims, GridIds)) :
    /\ Start(d)
    /\ pc = "sort"
    /\ pieces \in load_puzzle(d)

\* main is about to call load_puzzle; the extra tiles have the size of the
\* first row's, and the first row's last tile fits right of them
InitFair ==
  \E d \in Directories(TileSets(RowDims, {CellId(PUZZLE_GRID_SIZE - 1, 0)})) :
    /\ Start(d)
    /\ pc = "load"
    /\ pieces = << >>

\* ------------------------------------------------------------- ingestion

\* load_puzzle returns Err and main returns it through the ? operator
LoadErr ==
  /\ pc = "load"
  /\ load_fails(dir)
  /\ pc' = "failed"
  /\ UNCHANGED <<dir, traversal, compositor>>

\* load_puzzle returns the pieces, in some order
LoadOk ==
  /\ pc = "load"
  /\ ~load_fails(dir)
  /\ pieces' \in load_puzzle(dir)
  /\ pc' = "sort"
  /\ UNCHANGED <<dir, hash_maps, stack, current_index, col, row, side_i,
                 placed_by, pushlog, compositor>>

\* -------------------------------------------------------- assemble_puzzle

\* the sort, build_hash_map and the seeding of the stack with index 0
Sort ==
  /\ pc = "sort"
  /\ pieces' \in sort_unstable_by(pieces)
  /\ hash_maps' = build_hash_map(pieces')
  /\ stack' = <<1>>
  /\ pc' = "loop"
  /\ UNCHANGED <<dir, current_index, col, row, side_i, placed_by, pushlog, compositor>>

\* while let Some(current_index) = stack.pop(), to the head of the for loop
Pop ==
  /\ pc = "loop"
  /\ stack # << >>
  /\ LET cur == stack[Len(stack)] IN
       /\ current_index' = cur
       /\ col' = pieces[cur].col
       /\ row' = pieces[cur].row
       /\ stack' = SubSeq(stack, 1, Len(stack) - 1)
       /\ IF is_last_cell(pieces[cur].col, pieces[cur].row)
          THEN pc' = "loop" /\ side_i' = 0
          ELSE pc' = "expand" /\ side_i' = 1
  /\ UNCHANGED <<dir, pieces, hash_maps, placed_by, pushlog, compositor>>

\* one iteration of the for loop over (Right, Left), (Bottom, Top)
Expand ==
  /\ pc = "expand"
  /\ LET e == expand(hash_maps, pieces, stack, current_index, col, row,
                      SIDE_PAIRS[side_i])
     IN \/ /\ pieces' = e.pieces
           /\ stack' = e.stack
           /\ IF e.m # 0
              THEN /\ placed_by' = [placed_by EXCEPT ![pieces[e.m].id] =
                                      [by |-> pieces[current_index].id,
                                       side |-> SIDE_PAIRS[side_i][1]]]
                   /\ pushlog' = IF Len(pushlog) <= Len(pieces)
                                 THEN Append(pushlog, e.m)
                                 ELSE pushlog
              ELSE UNCHANGED <<placed_by, pushlog>>
           /\ IF side_i < Len(SIDE_PAIRS)
              THEN pc' = "expand" /\ side_i' = side_i + 1
              ELSE pc' = "loop" /\ side_i' = 0
        \/ /\ e.overflow
           /\ pc' = "panicked"
           /\ UNCHANGED <<pieces, stack, side_i, placed_by, pushlog>>
  /\ UNCHANGED <<dir, hash_maps, current_index, col, row, compositor>>

\* the stack is empty: assemble_puzzle returns and main allocates the canvas
Return ==
  /\ pc = "loop"
  /\ stack = << >>
  /\ pc' = "compose"
  /\ canvas' = [p \in Pixels |-> 0]
  /\ task' = [i \in 1 .. Len(pieces) |-> "todo"]
  /\ acquired' = [i \in 1 .. Len(pieces) |-> 0]
  /\ UNCHANGED <<dir, traversal, lock, saved>>

\* ------------------------------------------------------------ compositor

\* the closure of piece i finds the piece out of the grid and ends
Skip(i) ==
  /\ pc = "compose"
  /\ task[i] = "todo"
  /\ ~blit_guard(pieces[i])
  /\ task' = [task EXCEPT ![i] = "skipped"]
  /\ UNCHANGED <<pc, dir, traversal, canvas, lock, saved, acquired>>

\* a lock() that does not wait for the holder
Lock_without_waiting(i) ==
  /\ pc = "compose"
  /\ task[i] = "todo"
  /\ blit_guard(pieces[i])
  /\ lock' = i
  /\ task' = [task EXCEPT ![i] = "locked"]
  /\ acquired' = [acquired EXCEPT ![i] = @ + 1]
  /\ UNCHANGED <<pc, dir, traversal, canvas, saved>>

\* the closure of piece i has built its buffer and gets the lock
Lock(i) ==
  /\ pc = "compose"
  /\ task[i] = "todo"
  /\ blit_guard(pieces[i])
  /\ lock = 0
  /\ lock' = i
  /\ task' = [task EXCEPT ![i] = "locked"]
  /\ acquired' = [acquired EXCEPT ![i] = @ + 1]
  /\ UNCHANGED <<pc, dir, traversal, canvas, saved>>

\* result.copy_from(&buffer, x, y).unwrap()
Copy(i) ==
  /\ pc = "compose"
  /\ task[i] = "locked"
  /\ IF fits(rect(pieces[i]))
     THEN /\ canvas' = copy_from(canvas, pieces[i])
          /\ task' = [task EXCEPT ![i] = "copied"]
          /\ pc' = pc
     ELSE /\ pc' = "panicked"
          /\ UNCHANGED <<canvas, task>>
  /\ UNCHANGED <<dir, traversal, lock, saved, acquired>>

\* a closure that ends with the guard still held
Unlock_keeps_lock(i) ==
  /\ pc = "compose"
  /\ task[i] = "copied"
  /\ lock' = lock
  /\ task' = [task EXCEPT ![i] = "done"]
  /\ UNCHANGED <<pc, dir, traversal, canvas, saved, acquired>>

\* the closure of piece i ends and its guard is dropped
Unlock(i) ==
  /\ pc = "compose"
  /\ task[i] = "copied"
  /\ lock' = 0
  /\ task' = [task EXCEPT ![i] = "done"]
  /\ UNCHANGED <<pc, dir, traversal, canvas, saved, acquired>>

\* for_each returns when every closure has ended
Join ==
  /\ pc = "compose"
  /\ \A i \in 1 .. Len(pieces) : task[i] \in {"done", "skipped"}
  /\ pc' = "save"
  /\ UNCHANGED <<dir, traversal, compositor>>

\* result.save("result.jpg")
Save ==
  /\ pc = "save"
  /\ saved' = TRUE
  /\ pc' = "done"
  /\ UNCHANGED <<dir, traversal, canvas, lock, task, acquired>>

Blit == \E i \in 1 .. Len(pieces) : Skip(i) \/ Lock(i) \/ Copy(i) \/ Unlock(i)

NextAssemble == Sort \/ Pop \/ Expand \/ Return

Next == LoadErr \/ LoadOk \/ NextAssemble \/ Blit \/ Join \/ Save

\* main, from the call of load_puzzle
Spec == Init /\ [][Next]_vars

\* assemble_puzzle, from its entry to its return
SpecAssemble == InitAssemble /\ [][NextAssemble]_vars

\* main under a fair scheduler, from the call of load_puzzle: the main thread
\* and the workers of the pool go on as long as one has a step to take
SpecFair == InitFair /\ [][Next]_vars /\ WF_vars(Next)

\* assemble_puzzle alone, with an origin tile or none; its one thread goes on
\* as long as it has a step to take
SpecTraversal == InitTraversal /\ [][NextAssemble]_vars /\ WF_vars(NextAssemble)

\* ----------------------------------------------------- what is claimed

\* a tile of the origin's size: PuzzlePiece::new gives it col = 0 and row = 0
IsOrigin(t) == t.width = FIRST_COL_WIDTH /\ t.height = FIRST_ROW_HEIGHT

\* both coordinates are grid coordinates
Resolved(p) == p.col >= 0 /\ p.row >= 0

\* index i was selected as a match
Selected(i) == placed_by[pieces[i].id].by # 0

\* the directory holds a complete grid with exactly one origin, and a Right
\* (Bottom) fingerprint equals another tile's Left (Top) fingerprint exactly
\* when that tile is the true right (lower) neighbour
TrueNeighbourSet(d) ==
  LET f == d.files
      n == Len(f)
  IN /\ n = Cardinality(GridIds)
     /\ {f[i].id : i \in 1 .. n} = GridIds
     /\ Cardinality({i \in 1 .. n : IsOrigin(f[i])}) = 1
     /\ \A i, j \in 1 .. n :
          i # j =>
            /\ (f[i].edge_hashes[Right] = f[j].edge_hashes[Left])
                 <=> (/\ TrueCol(f[j].id) = TrueCol(f[i].id) + 1
                      /\ TrueRow(f[j].id) = TrueRow(f[i].id))
            /\ (f[i].edge_hashes[Bottom] = f[j].edge_hashes[Top])
                 <=> (/\ TrueRow(f[j].id) = TrueRow(f[i].id) + 1
                      /\ TrueCol(f[j].id) = TrueCol(f[i].id))

AtTruePositions ==
  \A i \in 1 .. Len(pieces) :
    /\ pieces[i].col = TrueCol(pieces[i].id)
    /\ pieces[i].row = TrueRow(pieces[i].id)

\* C1: when assemble_puzzle returns on a complete grid of tiles whose
\* fingerprints match exactly between true neighbours, every tile's (col, row)
\* is its true grid position, whatever the order of ingestion and whatever
\* order the sort left.
C1_TruePositions ==
  (pc = "compose" /\ TrueNeighbourSet(dir)) => AtTruePositions

\* C1's case: such a grid has been assembled, from a collection that was not
\* loaded in directory order and with the two anchors swapped by the sort
C1_Witness ==
  /\ pc = "compose"
  /\ TrueNeighbourSet(dir)
  /\ AtTruePositions
  /\ pieces[2].id = CellId(0, 1)
  /\ Len(pushlog) = Len(pieces) - 1

\* no two distinct pieces with both coordinates non-negative share a cell
NoSharedCell ==
  \A i, j \in 1 .. Len(pieces) :
    (i # j /\ Resolved(pieces[i]) /\ Resolved(pieces[j]))
      => <<pieces[i].col, pieces[i].row>> # <<pieces[j].col, pieces[j].row>>

\* C2 as claimed: in every state, for every tile set with one origin (several
\* tiles may share an edge fingerprint), no two resolved pieces share a cell.
C2_NoSharedCell_AsClaimed == NoSharedCell

\* C2, amended: in every state of assemble_puzzle on a complete grid whose
\* fingerprints match exactly between true neighbours, no two resolved pieces
\* share a cell.
C2_NoSharedCell_TrueNeighbours == TrueNeighbourSet(dir) => NoSharedCell

\* C2's case: the traversal of such a grid has placed pieces and goes on
C2_Witness ==
  /\ TrueNeighbourSet(dir)
  /\ pc = "expand"
  /\ Cardinality({i \in 1 .. Len(pieces) : Resolved(pieces[i])}) >= 3

\* the final coordinates of every tile
CoordsById(ps) == {<<ps[i].id, ps[i].col, ps[i].row>> : i \in 1 .. Len(ps)}

\* the piece made from tile id
PieceById(ps, id) == ps[CHOOSE i \in 1 .. Len(ps) : ps[i].id = id]

\* the coordinates this run ended with are those of every outcome of
\* assemble_puzzle on every order of ingestion of the same directory
SameAsEveryRun ==
  \A p2 \in load_puzzle(dir) :
    \A r2 \in assemble_puzzle(p2) : CoordsById(pieces) = CoordsById(r2)

\* C3 as claimed: for every tile set with one origin, the final (col, row) of
\* every tile is the same for every order of ingestion and every order the
\* unstable sort leaves among pieces it ranks equal.
C3_OrderIndependent_AsClaimed == pc = "compose" => SameAsEveryRun

\* C3, amended: on a complete grid whose fingerprints match exactly between
\* true neighbours, assemble_puzzle gives every tile the same final (col, row)
\* for every order of ingestion and every order the sort leaves: all the
\* outcomes from all the orders agree, and so does the run that was made.
C3_OrderIndependent_TrueNeighbours ==
  TrueNeighbourSet(dir) =>
    /\ pc = "sort" =>
         \A p2 \in load_puzzle(dir) :
           \A r1 \in assemble_puzzle(pieces) :
             \A r2 \in assemble_puzzle(p2) : CoordsById(r1) = CoordsById(r2)
    /\ pc = "compose" => SameAsEveryRun

\* C3's case: a run on such a grid has ended, the sort had several outcomes
\* and the collection was not loaded in the directory's order
C3_Witness ==
  /\ TrueNeighbourSet(dir)
  /\ pc = "compose"
  /\ \E p2 \in load_puzzle(dir) :
       /\ Cardinality(sort_unstable_by(p2)) > 1
       /\ \E q \in sort_unstable_by(p2) : [i \in 1 .. Len(q) |-> q[i].id]
                                            # [i \in 1 .. Len(pieces) |-> pieces[i].id]
  /\ SameAsEveryRun

\* a step leaves every non-negative col and every non-negative row as it was
KeepsCoordinate ==
  \A i \in 1 .. Len(pieces) :
    LET p == pieces[i]
        q == PieceById(pieces', p.id)
    IN /\ p.col >= 0 => q.col = p.col
       /\ p.row >= 0 => q.row = p.row

\* a step leaves the coordinates of every resolved piece as they were
KeepsResolved ==
  \A i \in 1 .. Len(pieces) :
    LET p == pieces[i]
        q == PieceById(pieces', p.id)
    IN Resolved(p) => (q.col = p.col /\ q.row = p.row)

\* no index was pushed, that is had its coordinates assigned, twice
AssignedAtMostOnce ==
  \A i \in 1 .. Len(pieces) :
    Cardinality({k \in 1 .. Len(pushlog) : pushlog[k] = i}) <= 1

\* C4 as claimed: once a piece's col is non-negative (the 0 of an anchor
\* included) no later step changes it, likewise its row, and the traversal
\* assigns every piece's coordinates at most once.
C4_NeverOverwritten_AsClaimed == [][KeepsCoordinate /\ AssignedAtMostOnce']_vars

\* C4, amended: once a piece's col and row are both non-negative no later step
\* changes either (the 0 an anchor holds beside a -1 can be overwritten by the
\* step that places the anchor), and with one origin the traversal assigns
\* every piece's coordinates at most once.
C4_ResolvedNeverOverwritten == [][KeepsResolved /\ AssignedAtMostOnce']_vars

\* C4's case: the traversal ended having placed an anchor of the first
\* column in another column
C4_Witness ==
  /\ pc = "compose"
  /\ \E i \in 1 .. Len(pieces) :
       /\ pieces[i].width = FIRST_COL_WIDTH
       /\ pieces[i].col > 0
       /\ Selected(i)

\* C5 as claimed: when assemble_puzzle ends, any two distinct tiles P, Q with
\* P's Right fingerprint equal to Q's Left have Q at (P.col + 1, P.row), and
\* with P's Bottom equal to Q's Top have Q at (P.col, P.row + 1).
C5_MatchingAdjacent_AsClaimed ==
  pc = "compose" =>
    \A i, j \in 1 .. Len(pieces) :
      i # j =>
        /\ pieces[i].edge_hashes[Right] = pieces[j].edge_hashes[Left]
             => (pieces[j].col = pieces[i].col + 1 /\ pieces[j].row = pieces[i].row)
        /\ pieces[i].edge_hashes[Bottom] = pieces[j].edge_hashes[Top]
             => (pieces[j].row = pieces[i].row + 1 /\ pieces[j].col = pieces[i].col)

\* C5, amended: for every tile set with one origin, in every state and when
\* assemble_puzzle ends, a tile Q that the traversal selected as the match of
\* tile P on side Right has P's Right fingerprint as its Left and sits at
\* (P.col + 1, P.row); one selected on side Bottom has P's Bottom fingerprint
\* as its Top and sits at (P.col, P.row + 1).
C5_SelectedAdjacent ==
  \A j \in 1 .. Len(pieces) :
    Selected(j) =>
      LET q == pieces[j]
          p == PieceById(pieces, placed_by[q.id].by)
          side == placed_by[q.id].side
      IN /\ side \in {Right, Bottom}
         /\ side = Right =>
              /\ p.edge_hashes[Right] = q.edge_hashes[Left]
              /\ q.col = p.col + 1 /\ q.row = p.row
         /\ side = Bottom =>
              /\ p.edge_hashes[Bottom] = q.edge_hashes[Top]
              /\ q.row = p.row + 1 /\ q.col = p.col

\* C5's case: the traversal ended, a piece P placed Q on its right and another
\* piece with the same Left fingerprint as Q is not right of P
C5_Witness ==
  /\ pc = "compose"
  /\ \E i, j, k \in 1 .. Len(pieces) :
       /\ j # k /\ i # k
       /\ Selected(j)
       /\ placed_by[pieces[j].id] = [by |-> pieces[i].id, side |-> Right]
       /\ pieces[k].edge_hashes[Left] = pieces[i].edge_hashes[Right]
       /\ ~(pieces[k].col = pieces[i].col + 1 /\ pieces[k].row = pieces[i].row)

\* C6: the origin piece has col = 0 and row = 0 in every state, whatever the
\* tiles and their fingerprints, rect gives it x = 0 and y = 0, and once it
\* is copied the canvas's pixel (0, 0) is its own.
C6_OriginFixed ==
  \A i \in 1 .. Len(pieces) :
    IsOrigin(pieces[i]) =>
      /\ pieces[i].col = 0 /\ pieces[i].row = 0
      /\ rect(pieces[i]).x = 0 /\ rect(pieces[i]).y = 0
      /\ (task # << >> /\ task[i] \in {"copied", "done"})
           => canvas[<<0, 0>>] = pieces[i].id

\* C6's case: the run ended after a piece whose Right fingerprint is the
\* origin's Left one was placed and expanded, so the origin was its candidate
C6_Witness ==
  /\ pc = "done"
  /\ \E i, j \in 1 .. Len(pieces) :
       /\ IsOrigin(pieces[i])
       /\ pieces[i].col = 0 /\ pieces[i].row = 0
       /\ canvas[<<0, 0>>] = pieces[i].id
       /\ i # j
       /\ Selected(j)
       /\ pieces[j].edge_hashes[Right] = pieces[i].edge_hashes[Left]

\* the col and row PuzzlePiece::new gives a tile of these dimensions
AsConstructed(p) ==
  /\ p.col = (IF p.width = FIRST_COL_WIDTH THEN 0 ELSE -1)
  /\ p.row = (IF p.height = FIRST_ROW_HEIGHT THEN 0 ELSE -1)

\* C7: a non-origin piece that no expanded piece has selected was never pushed
\* and is not on the stack, has the col and row it was constructed with, and
\* is not blitted: its task takes no lock and no pixel of the canvas is its.
C7_UnselectedUntouched ==
  \A i \in 1 .. Len(pieces) :
    (~IsOrigin(pieces[i]) /\ ~Selected(i)) =>
      /\ \A k \in 1 .. Len(pushlog) : pushlog[k] # i
      /\ pc \in {"loop", "expand"} => \A k \in 1 .. Len(stack) : stack[k] # i
      /\ AsConstructed(pieces[i])
      /\ task # << >> =>
           /\ task[i] \in {"todo", "skipped"}
           /\ acquired[i] = 0
           /\ \A px \in Pixels : canvas[px] # pieces[i].id

\* C7's case: the run ended with a non-origin piece that was never selected,
\* while another piece was selected
C7_Witness ==
  /\ pc = "done"
  /\ \E i, j \in 1 .. Len(pieces) :
       /\ ~IsOrigin(pieces[i]) /\ ~Selected(i)
       /\ task[i] = "skipped"
       /\ AsConstructed(pieces[i])
       /\ Selected(j)
       /\ task[j] = "done"

\* 0 <= col < GRID_SIZE and 0 <= row < GRID_SIZE
InGrid(p) ==
  /\ 0 <= p.col /\ p.col < PUZZLE_GRID_SIZE
  /\ 0 <= p.row /\ p.row < PUZZLE_GRID_SIZE

\* C8: the compositor writes the pixels of a piece if and only if
\* 0 <= col < GRID_SIZE and 0 <= row < GRID_SIZE: a task that takes the lock
\* and copies is of such a piece, a task that ends without is of another, a
\* pixel that is not blank is in the rectangle of such a piece that was
\* copied, and when compositing has ended every such piece was copied and
\* every pixel outside their rectangles is blank.
C8_WritesIffInGrid ==
  task # << >> =>
    /\ \A i \in 1 .. Len(pieces) :
         /\ task[i] \in {"locked", "copied", "done"} => InGrid(pieces[i])
         /\ task[i] = "skipped" => ~InGrid(pieces[i])
    /\ \A px \in Pixels :
         canvas[px] # 0 =>
           \E i \in 1 .. Len(pieces) :
             /\ InGrid(pieces[i])
             /\ task[i] \in {"copied", "done"}
             /\ px \in RectPixels(rect(pieces[i]))
             /\ canvas[px] = pieces[i].id
    /\ pc \in {"save", "done"} =>
         /\ \A i \in 1 .. Len(pieces) : InGrid(pieces[i]) <=> task[i] = "done"
         /\ \A px \in Pixels :
              (\A i \in 1 .. Len(pieces) :
                 InGrid(pieces[i]) => px \notin RectPixels(rect(pieces[i])))
                => canvas[px] = 0
         /\ \A i \in 1 .. Len(pieces) :
              InGrid(pieces[i]) =>
                \A px \in RectPixels(rect(pieces[i])) : canvas[px] # 0

\* C8's case: compositing ended with a piece copied, a piece outside the
\* grid left out, and a pixel still blank
C8_Witness ==
  /\ pc = "done"
  /\ \E i, j \in 1 .. Len(pieces) :
       /\ InGrid(pieces[i]) /\ task[i] = "done"
       /\ ~InGrid(pieces[j]) /\ task[j] = "skipped"
  /\ \E px \in Pixels : canvas[px] = 0

\* C9: when the directory cannot be listed or one of its files cannot be
\* decoded, the run only fails: no piece collection reaches assemble_puzzle,
\* nothing is sorted or pushed, no canvas is made, no task runs, no lock is
\* taken and result.jpg is not written.
C9_LoadFailureStops ==
  (~dir.readable \/ dir.bad # 0) =>
    /\ pc \in {"load", "failed"}
    /\ pieces = << >>
    /\ hash_maps = << >>
    /\ stack = << >>
    /\ pushlog = << >>
    /\ canvas = << >>
    /\ task = << >>
    /\ lock = 0
    /\ ~saved

\* C9's case: the run has failed on a directory that can be listed and has
\* one file that cannot be decoded
C9_Witness ==
  /\ pc = "failed"
  /\ dir.readable
  /\ dir.bad # 0
  /\ ~saved

\* the tasks that hold the canvas lock
Holders == {i \in 1 .. Len(task) : task[i] \in {"locked", "copied"}}

\* C10: under every interleaving of the tasks, at most one holds the lock
\* and it is the one the lock records; a task of a piece to blit has taken
\* the lock once when it ends and never twice, a task of a piece left out
\* never takes it; the holder waits for nothing: its copy and its release are
\* enabled; and the canvas changes only in a step of the holder, which holds
\* the lock before and after the step.
C10_MutualExclusion ==
  /\ [](/\ Cardinality(Holders) <= 1
        /\ \A i \in 1 .. Len(task) :
             /\ i \in Holders <=> lock = i
             /\ acquired[i] <= 1
             /\ task[i] \in {"locked", "copied", "done"} => acquired[i] = 1
             /\ task[i] \in {"todo", "skipped"} => acquired[i] = 0
             /\ task[i] = "locked" => ENABLED Copy(i)
             /\ task[i] = "copied" => ENABLED Unlock(i)
        /\ Holders = {} => lock = 0)
  /\ [][(canvas # << >> /\ canvas' # canvas) =>
          /\ lock # 0
          /\ lock' = lock
          /\ task[lock] = "locked"
          /\ task'[lock] = "copied"
          /\ \A px \in Pixels :
               canvas'[px] # canvas[px] => canvas'[px] = pieces[lock].id]_vars

\* C10's case: one task holds the lock and has copied while another task,
\* of a piece to blit, has not had the lock yet, and a third is done
C10_Witness ==
  /\ pc = "compose"
  /\ \E i, j, k \in 1 .. Len(task) :
       /\ task[i] = "copied" /\ lock = i
       /\ task[j] = "todo" /\ blit_guard(pieces[j])
       /\ task[k] = "done"

\* the size the tile of the cell of piece p has: FIRST_COL_WIDTH wide in
\* column 0 and one pixel wider elsewhere, FIRST_ROW_HEIGHT tall in row 0 and
\* one pixel taller elsewhere
CellSized(p) ==
  /\ p.width = (IF p.col = 0 THEN FIRST_COL_WIDTH ELSE FIRST_COL_WIDTH + 1)
  /\ p.height = (IF p.row = 0 THEN FIRST_ROW_HEIGHT ELSE FIRST_ROW_HEIGHT + 1)

\* pairs of pieces of such sizes at distinct cells of the grid
CellPairs ==
  {pq \in (1 .. Len(pieces)) \X (1 .. Len(pieces)) :
     /\ pq[1] # pq[2]
     /\ InGrid(pieces[pq[1]]) /\ InGrid(pieces[pq[2]])
     /\ CellSized(pieces[pq[1]]) /\ CellSized(pieces[pq[2]])
     /\ <<pieces[pq[1]].col, pieces[pq[1]].row>> # <<pieces[pq[2]].col, pieces[pq[2]].row>>}

\* the pixels the rectangles of pieces p and q share
Shared(p, q) == RectPixels(rect(p)) \cap RectPixels(rect(q))

\* C11 as claimed: with the tile sizes of the cells, the rectangles rect
\* gives two pieces at distinct cells of the grid share no pixel.
C11_Disjoint_AsClaimed ==
  \A pq \in CellPairs : Shared(pieces[pq[1]], pieces[pq[2]]) = {}

\* C11, amended: with the tile sizes of the cells, the rectangles of two
\* pieces at distinct cells of the grid share at most the one-pixel seam: a
\* shared pixel is in column FIRST_COL_WIDTH * c - 1 when the columns differ,
\* c being the larger and one more than the other, and in row
\* FIRST_ROW_HEIGHT * r - 1 when the rows differ, likewise; and two pieces
\* side by side in a row, or one above the other in a column, do share the
\* pixels of that seam.
C11_SeamOnly ==
  \A pq \in CellPairs :
    LET p == pieces[pq[1]]
        q == pieces[pq[2]]
        shared == Shared(p, q)
    IN /\ (p.col < q.col /\ shared # {}) => q.col = p.col + 1
       /\ (p.row < q.row /\ shared # {}) => q.row = p.row + 1
       /\ p.col < q.col =>
            \A px \in shared : px[1] = FIRST_COL_WIDTH * q.col - 1
       /\ p.row < q.row =>
            \A px \in shared : px[2] = FIRST_ROW_HEIGHT * q.row - 1
       /\ (q.col = p.col + 1 /\ q.row = p.row) =>
            shared = {FIRST_COL_WIDTH * q.col - 1}
                       \X (rect(q).y .. rect(q).y + q.height - 1)
       /\ (q.row = p.row + 1 /\ q.col = p.col) =>
            shared = (rect(q).x .. rect(q).x + q.width - 1)
                       \X {FIRST_ROW_HEIGHT * q.row - 1}

\* C11's case: assemble_puzzle has returned with every cell of the grid
\* holding a piece of the cell's size, and the rectangles of two of them in
\* adjacent cells share a pixel
C11_Witness ==
  /\ pc = "compose"
  /\ \A cell \in GridCells :
       \E i \in 1 .. Len(pieces) :
         pieces[i].col = cell[1] /\ pieces[i].row = cell[2] /\ CellSized(pieces[i])
  /\ \E pq \in CellPairs :
       /\ pieces[pq[2]].col = pieces[pq[1]].col + 1
       /\ pieces[pq[2]].row = pieces[pq[1]].row
       /\ Shared(pieces[pq[1]], pieces[pq[2]]) # {}

\* C12 as claimed: for every non-empty collection and every assignment of
\* fingerprints, with an origin tile or without, the loop of assemble_puzzle
\* eventually finds its stack empty and assemble_puzzle returns.
C12_Terminates_AsClaimed == <>(pc = "compose")

\* C13 as claimed: with one origin, in every state of assemble_puzzle the col
\* and the row of every piece are -1 or in 0 .. GRID_SIZE - 1.
C13_InGridOrUnresolved_AsClaimed ==
  \A i \in 1 .. Len(pieces) :
    /\ pieces[i].col \in -1 .. PUZZLE_GRID_SIZE - 1
    /\ pieces[i].row \in -1 .. PUZZLE_GRID_SIZE - 1

\* C13, amended: with one origin, in every state of assemble_puzzle the col
\* and the row of every piece are -1 or in 0 .. n - 1, n being the number of
\* pieces, so they can reach GRID_SIZE and more when fingerprints collide; on
\* a complete grid whose fingerprints match exactly between true neighbours
\* they are -1 or in 0 .. GRID_SIZE - 1.
C13_CoordinateRange ==
  \A i \in 1 .. Len(pieces) :
    /\ pieces[i].col \in -1 .. Len(pieces) - 1
    /\ pieces[i].row \in -1 .. Len(pieces) - 1
    /\ TrueNeighbourSet(dir) =>
         /\ pieces[i].col \in -1 .. PUZZLE_GRID_SIZE - 1
         /\ pieces[i].row \in -1 .. PUZZLE_GRID_SIZE - 1

\* C13's case: the traversal ended having given a piece the column GRID_SIZE
C13_Witness ==
  /\ pc = "compose"
  /\ \E i \in 1 .. Len(pieces) :
       /\ Selected(i)
       /\ pieces[i].col = PUZZLE_GRID_SIZE
       /\ pieces[i].row \in 0 .. PUZZLE_GRID_SIZE - 1

\* a step in which the piece of tile id is selected: its index is pushed
SelectedInStep(id) ==
  /\ pc = "expand"
  /\ Len(stack') = Len(stack) + 1
  /\ pieces'[stack'[Len(stack')]].id = id

\* C14: once a piece has col >= 0 and row >= 0, no step of assemble_puzzle
\* selects it as a match and none changes its col or its row, whether the
\* tile set has an origin or not.
C14_PlacedAbsorbing ==
  [][\A i \in 1 .. Len(pieces) :
       Resolved(pieces[i]) =>
         /\ PieceById(pieces', pieces[i].id).col = pieces[i].col
         /\ PieceById(pieces', pieces[i].id).row = pieces[i].row
         /\ placed_by'[pieces[i].id] = placed_by[pieces[i].id]
         /\ ~SelectedInStep(pieces[i].id)]_vars

\* C14's case: the traversal ended after a piece Q was placed right of P
\* although a piece of lower index than Q, not P, has the Left fingerprint
\* looked up: that one was resolved and passed over
C14_Witness ==
  /\ pc = "compose"
  /\ \E i, j, k \in 1 .. Len(pieces) :
       /\ i # j /\ i # k /\ k < j
       /\ placed_by[pieces[j].id] = [by |-> pieces[i].id, side |-> Right]
       /\ pieces[k].edge_hashes[Left] = pieces[i].edge_hashes[Right]
       /\ Resolved(pieces[k])

\* the side being expanded and the side looked up
ExpandedSide == IF side_i = 1 THEN Right ELSE Bottom

LookedUpSide == IF side_i = 1 THEN Left ELSE Top

\* the pieces that can be the match when the popped piece is expanded: they
\* have its fingerprint on the looked-up side, are not it, and have col = -1
\* or row = -1
Candidates ==
  {k \in 1 .. Len(pieces) :
     /\ k # current_index
     /\ pieces[k].edge_hashes[LookedUpSide]
          = pieces[current_index].edge_hashes[ExpandedSide]
     /\ (pieces[k].col = -1 \/ pieces[k].row = -1)}

\* the lowest index of a non-empty set of indices
Lowest(S) == CHOOSE k \in S : \A j \in S : k <= j

\* C15: the expansion of the popped piece on side Right (Bottom) places the
\* piece of lowest index after the sort among those whose Left (Top)
\* fingerprint is its Right (Bottom) one, that are not it and have col = -1 or
\* row = -1: that piece gets the popped piece's coordinates plus (1, 0)
\* ((0, 1)) and is pushed, no other piece changes; without such a piece
\* nothing is assigned or pushed.
C15_LowestCandidatePlaced ==
  [][pc = "expand" =>
       IF Candidates = {}
       THEN pieces' = pieces /\ stack' = stack
       ELSE /\ pieces' = [pieces EXCEPT
                 ![Lowest(Candidates)].col = col + (IF ExpandedSide = Right THEN 1 ELSE 0),
                 ![Lowest(Candidates)].row = row + (IF ExpandedSide = Bottom THEN 1 ELSE 0)]
            /\ stack' = Append(stack, Lowest(Candidates))]_vars

\* C15's case: a piece was placed by an expansion while a piece of higher
\* index with the same looked-up fingerprint was a candidate as well, and is
\* one still
C15_Witness ==
  /\ pc \in {"expand", "loop"}
  /\ \E j, k \in 1 .. Len(pieces) :
       /\ j < k
       /\ k # current_index
       /\ Selected(j)
       /\ placed_by[pieces[j].id].by = pieces[current_index].id
       /\ placed_by[pieces[j].id].side = Right
       /\ pieces[j].edge_hashes[Left] = pieces[k].edge_hashes[Left]
       /\ pieces[j].col = col + 1 /\ pieces[j].row = row
       /\ (pieces[k].col = -1 \/ pieces[k].row = -1)
       /\ stack # << >> /\ stack[Len(stack)] = j

\* an anchor: PuzzlePiece::new gave it col = 0 or row = 0
IsAnchor(t) == t.width = FIRST_COL_WIDTH \/ t.height = FIRST_ROW_HEIGHT

\* C16: after the sort of assemble_puzzle, for a collection with one origin
\* loaded in any order, the first index holds the origin and every anchor
\* has a lower index than every piece that is no anchor; the order stays as
\* it is to the end of the traversal.
C16_SortedAnchorsFirst ==
  pc \in {"loop", "expand", "compose"} =>
    /\ IsOrigin(pieces[1])
    /\ \A i, j \in 1 .. Len(pieces) :
         (IsAnchor(pieces[i]) /\ ~IsAnchor(pieces[j])) => i < j
    /\ (pc = "loop" /\ pushlog = << >> /\ stack = <<1>>) =>
         \A i \in 1 .. Len(pieces) : AsConstructed(pieces[i])

\* C16's case: the sort has just run on a collection with two pieces that
\* are no anchors and has left the tiles in another order than the directory's
C16_Witness ==
  /\ pc = "loop" /\ pushlog = << >> /\ stack = <<1>>
  /\ IsOrigin(pieces[1])
  /\ Cardinality({i \in 1 .. Len(pieces) : ~IsAnchor(pieces[i])}) >= 2
  /\ [i \in 1 .. Len(pieces) |-> pieces[i].id]
       # [i \in 1 .. Len(dir.files) |-> dir.files[i].id]

\* C17: the pop of a piece at (GRID_SIZE - 1, GRID_SIZE - 1) assigns nothing
\* and pushes nothing and the loop goes to its next pop, whatever its Right
\* and Bottom fingerprints match; the pop of a piece with other coordinates
\* is followed by its expansion on Right and then by its expansion on Bottom.
C17_LastCellNotExpanded ==
  [][/\ (pc = "loop" /\ stack # << >>) =>
          LET cur == stack[Len(stack)] IN
            IF /\ pieces[cur].col = PUZZLE_GRID_SIZE - 1
               /\ pieces[cur].row = PUZZLE_GRID_SIZE - 1
            THEN /\ pieces' = pieces
                 /\ stack' = SubSeq(stack, 1, Len(stack) - 1)
                 /\ pushlog' = pushlog
                 /\ pc' = "loop"
            ELSE /\ pieces' = pieces
                 /\ stack' = SubSeq(stack, 1, Len(stack) - 1)
                 /\ pc' = "expand" /\ current_index' = cur
                 /\ side_i' = 1 /\ SIDE_PAIRS[1] = <<Right, Left>>
     /\ (pc = "expand" /\ side_i = 1) =>
          /\ pc' = "expand" /\ current_index' = current_index
          /\ side_i' = 2 /\ SIDE_PAIRS[2] = <<Bottom, Top>>
     /\ (pc = "expand" /\ side_i = 2) => pc' = "loop"
     /\ pc' = "expand" =>
          ~(col' = PUZZLE_GRID_SIZE - 1 /\ row' = PUZZLE_GRID_SIZE - 1)]_vars

\* C17's case: a piece at the last cell was popped and not expanded while an
\* unresolved piece has its Right fingerprint as Left one
C17_Witness ==
  /\ pc = "loop"
  /\ current_index # 0
  /\ pieces[current_index].col = PUZZLE_GRID_SIZE - 1
  /\ pieces[current_index].row = PUZZLE_GRID_SIZE - 1
  /\ col = PUZZLE_GRID_SIZE - 1 /\ row = PUZZLE_GRID_SIZE - 1
  /\ \E k \in 1 .. Len(pieces) :
       /\ k # current_index
       /\ pieces[k].edge_hashes[Left] = pieces[current_index].edge_hashes[Right]
       /\ (pieces[k].col = -1 \/ pieces[k].row = -1)

\* C18: under fair scheduling, from the start of compositing the run reaches
\* the end of for_each with the lock free, every piece in the grid having
\* taken the lock once, copied and released it, and every other task ended
\* without the lock: no task waits for ever.
C18_CompositingCompletes ==
  (pc = "compose") ~>
    (/\ pc = "save"
     /\ lock = 0
     /\ \A i \in 1 .. Len(pieces) :
          IF InGrid(pieces[i])
          THEN /\ task[i] = "done" /\ acquired[i] = 1
               /\ \A px \in RectPixels(rect(pieces[i])) : canvas[px] # 0
          ELSE task[i] = "skipped" /\ acquired[i] = 0)

\* C18's case: for_each has returned with the lock free after three tasks
\* took it in turn and one ended without
C18_Witness ==
  /\ pc = "save"
  /\ lock = 0
  /\ Cardinality({i \in 1 .. Len(pieces) : task[i] = "done" /\ acquired[i] = 1}) >= 3
  /\ \E i \in 1 .. Len(pieces) : task[i] = "skipped" /\ acquired[i] = 0

\* C19: every index popped from the stack is of a piece whose col and row
\* are both non-negative when it is popped, and no index is pushed twice.
C19_PoppedResolvedPushedOnce_AsClaimed ==
  /\ current_index # 0 => (col >= 0 /\ row >= 0)
  /\ \A a, b \in 1 .. Len(pushlog) : a # b => pushlog[a] # pushlog[b]

\* the pieces in the grid sit at distinct cells
DistinctCells ==
  \A i, j \in 1 .. Len(pieces) :
    (i # j /\ InGrid(pieces[i]) /\ InGrid(pieces[j]))
      => <<pieces[i].col, pieces[i].row>> # <<pieces[j].col, pieces[j].row>>

RECURSIVE BlitInOrder(_, _)
\* the canvas after the pieces in the grid from index i on are copied over cv
\* in the order of their indices
BlitInOrder(cv, i) ==
  IF i > Len(pieces) THEN cv
  ELSE BlitInOrder(IF InGrid(pieces[i]) THEN copy_from(cv, pieces[i]) ELSE cv,
                   i + 1)

\* the pieces in the grid whose rectangle holds pixel px
Covering(px) ==
  {i \in 1 .. Len(pieces) :
     InGrid(pieces[i]) /\ px \in RectPixels(rect(pieces[i]))}

\* C20 as claimed: with the pieces in the grid at distinct cells, the canvas
\* that is saved is the one that copying in the order of the indices gives,
\* whatever the order in which the tasks took the lock.
C20_SameCanvas_AsClaimed ==
  (pc \in {"save", "done"} /\ DistinctCells) =>
    canvas = BlitInOrder([px \in Pixels |-> 0], 1)

\* C20, amended: with the pieces in the grid at distinct cells, the canvas
\* that is saved is the same for every order of the lock at every pixel that
\* lies in no rectangle (blank) or in the rectangle of one piece in the grid
\* (that piece's content); a pixel that lies in the rectangles of several
\* pieces holds the content of one of them, the one copied last.
C20_SameCanvasOffSeams ==
  (pc \in {"save", "done"} /\ DistinctCells) =>
    \A px \in Pixels :
      /\ Covering(px) = {} => canvas[px] = 0
      /\ \A i \in Covering(px) :
           Covering(px) = {i} => canvas[px] = pieces[i].id
      /\ Covering(px) # {} =>
           \E i \in Covering(px) : canvas[px] = pieces[i].id

\* C20's case: the canvas was saved with the pieces in the grid at distinct
\* cells, all cells taken, and on a pixel that two rectangles share the piece
\* of lower index was copied last
C20_Witness ==
  /\ pc = "done" /\ saved
  /\ DistinctCells
  /\ \A cell \in GridCells :
       \E i \in 1 .. Len(pieces) : <<pieces[i].col, pieces[i].row>> = cell
  /\ \E px \in Pixels :
       \E i, j \in Covering(px) : i < j /\ canvas[px] = pieces[i].id

=============================================================================
